---- MODULE Spec2Model ----
(***************************************************************************)
(* Work-phase inference and aggregation of adzialocha/time-tracker.       *)
(*                                                                         *)
(* The analysis script builds a time-sorted timeline of events, walks it   *)
(* pairwise in calculateWorkPhases to cut it into work phases, and then    *)
(* asks getWorkDuringTimeframe how many minutes of the phases fall into a  *)
(* query interval.  The same code exists twice: src/analyse.mjs with the   *)
(* fixed threshold 60 * 4, and the second script contained in              *)
(* src/fetch.mjs (from line 414 on) with the configurable                  *)
(* options.threshold.                                                      *)
(*                                                                         *)
(* Time is counted in whole minutes since an arbitrary epoch.  An ISO date *)
(* string is represented by the instant it denotes; the JavaScript values  *)
(* undefined / null / invalid DateTime are the single value Undefined.     *)
(***************************************************************************)
EXTENDS Integers, Sequences, FiniteSets

\* ------------------------------------------------------------------ bounds
MaxLen == 3

MaxNear == 6

\* ------------------------------------------------------- program constants
\* minutes added to the last event of a closed phase
PADDING == 5

\* 60 * 4, the threshold of analyse.mjs
THRESHOLD_ANALYSE == 240

\* 60 * 2, the default of the --threshold option
THRESHOLD_DEFAULT == 120

\* `let phaseTo;` - a variable that was never assigned
Undefined == -1

\* thresholds the program can run with: the fixed one, the default of the
\* option, and configured values (small, zero, negative)
Thresholds == {-1, 0, 3, THRESHOLD_DEFAULT, THRESHOLD_ANALYSE}

\* instants an event can carry: a dense group and a group on the far side
\* of the 240 minute threshold (gap exactly 240, 241, and more)
Instants ==
  (0 .. MaxNear) \cup
  {THRESHOLD_ANALYSE, THRESHOLD_ANALYSE + 1, THRESHOLD_ANALYSE + MaxNear}

\* instants a query interval can start or end at
QueryInstants ==
  {0, 2, PADDING, MaxNear, THRESHOLD_ANALYSE,
   THRESHOLD_ANALYSE + MaxNear + PADDING + 1}

\* ------------------------------------------------------------------- luxon
\* DateTime.fromISO: undefined or null gives an invalid DateTime
FromISO(text) == IF text = Undefined THEN Undefined ELSE text

\* DateTime#toISO: null for an invalid DateTime
ToISO(dt) == IF dt = Undefined THEN Undefined ELSE dt

\* DateTime#plus({ minutes })
Plus(dt, minutes) == IF dt = Undefined THEN Undefined ELSE dt + minutes

\* DateTime#diff(other, 'minutes').toObject().minutes: undefined when one
\* of the two DateTimes is invalid
DiffMinutes(toDate, fromDate) ==
  IF toDate = Undefined \/ fromDate = Undefined
    THEN Undefined
    ELSE toDate - fromDate

InvalidInterval == [kind |-> "Invalid", s |-> Undefined, e |-> Undefined]

Null == [kind |-> "null", s |-> Undefined, e |-> Undefined]

IsValid(interval) == interval.kind = "Interval"

\* Interval.fromDateTimes: invalid when an end point is missing or invalid,
\* or when the end lies before the start
FromDateTimes(start, end) ==
  IF start = Undefined \/ end = Undefined \/ end < start
    THEN InvalidInterval
    ELSE [kind |-> "Interval", s |-> start, e |-> end]

\* Interval#overlaps: this.e > other.s && this.s < other.e; a comparison
\* with the missing end point of an invalid interval is false
Overlaps(this, other) ==
  /\ IsValid(this)
  /\ IsValid(other)
  /\ this.e > other.s
  /\ this.s < other.e

\* Interval#intersection.  The installed luxon release decides whether an
\* intersection of zero length is null (s >= e) or an empty interval (s > e):
\* nullOnEmpty ranges over both.
Intersection(this, other, nullOnEmpty) ==
  IF ~IsValid(this) THEN this
  ELSE LET s == IF this.s > other.s THEN this.s ELSE other.s
           e == IF this.e < other.e THEN this.e ELSE other.e
       IN  IF s > e \/ (s = e /\ nullOnEmpty)
             THEN Null
             ELSE FromDateTimes(s, e)

\* Interval#toDuration(['minutes']).toObject()['minutes']
ToDurationMinutes(interval) == interval.e - interval.s

\* ------------------------------------------------- getWorkDuringTimeframe
RECURSIVE FilterOverlaps(_, _)
FilterOverlaps(workIntervals, timeframe) ==
  IF workIntervals = << >> THEN << >>
  ELSE LET rest == FilterOverlaps(Tail(workIntervals), timeframe)
       IN  IF Overlaps(timeframe, Head(workIntervals))
             THEN << Head(workIntervals) >> \o rest
             ELSE rest

MapIntersection(intervals, timeframe, nullOnEmpty) ==
  [k \in 1 .. Len(intervals) |->
     Intersection(timeframe, intervals[k], nullOnEmpty)]

RECURSIVE ReduceMinutes(_)
ReduceMinutes(intervals) ==
  IF intervals = << >> THEN 0
  ELSE ToDurationMinutes(Head(intervals)) + ReduceMinutes(Tail(intervals))

\* the value of getWorkDuringTimeframe, or the TypeError of calling
\* toDuration on a null intersection
getWorkDuringTimeframe(workIntervals, timeframe, nullOnEmpty) ==
  LET mapped == MapIntersection(FilterOverlaps(workIntervals, timeframe),
                                timeframe, nullOnEmpty)
  IN  IF \E k \in 1 .. Len(mapped) : mapped[k] = Null
        THEN [threw |-> TRUE, minutes |-> 0]
        ELSE [threw |-> FALSE, minutes |-> ReduceMinutes(mapped)]

\* ------------------------------------------------------------------- state
VARIABLES
  timeline,      \* the sorted timeline returned by gatherAllEvents
  threshold,     \* 60 * 4, or options.threshold
  pc,            \* position of the script
  i,             \* loop index of calculateWorkPhases
  phases,        \* the local array `phases` of { from, to }
  phaseFrom,     \* start of the open phase
  phaseTo,       \* provisional end, assigned only in the else branch
  workPhases,    \* the list of Intervals calculateWorkPhases returns
  timeframe,     \* the interval of the last query
  minutesWorked, \* the value the last query returned
  gather,        \* gatherAllEvents: the loaded files and the timeline
  fetch,         \* getCommitData: the commits and the position in it
  paging,        \* requestAll: the remote pages, page, result
  cell,          \* printCalendar: the cells of one day
  report         \* printCalendar, printMonthSummary, printTotal: the sums

vars ==
  << timeline, threshold, pc, i, phases, phaseFrom, phaseTo, workPhases,
     timeframe, minutesWorked, gather, fetch, paging, cell, report >>

\* the state of the analysis of the phases
analyseVars ==
  << timeline, threshold, pc, i, phases, phaseFrom, phaseTo, workPhases,
     timeframe, minutesWorked >>

\* the state of the other parts of the two scripts
otherVars == << gather, fetch, paging, cell, report >>

\* a part of the scripts that is not running
Idle == [pc |-> "idle"]

\* sequences of at most MaxLen events, ascending by date
SortedTimelines ==
  UNION { { t \in [1 .. n -> [date : Instants]] :
              \A k \in 1 .. n - 1 : t[k].date <= t[k + 1].date } :
          n \in 0 .. MaxLen }

Init ==
  /\ timeline \in SortedTimelines
  /\ threshold \in Thresholds
  /\ pc = "calculateWorkPhases"
  /\ i = 0
  /\ phases = << >>
  /\ phaseFrom = Undefined
  /\ phaseTo = Undefined
  /\ workPhases = << >>
  /\ timeframe = InvalidInterval
  /\ minutesWorked = 0
  /\ gather = Idle
  /\ fetch = Idle
  /\ paging = Idle
  /\ cell = Idle
  /\ report = Idle

\* ------------------------------------------------------ calculateWorkPhases
\* lines 111-115: timeline[0].date of an empty timeline is a TypeError
EnterThrows ==
  /\ pc = "calculateWorkPhases"
  /\ Len(timeline) = 0
  /\ pc' = "TypeError"
  /\ UNCHANGED << timeline, threshold, i, phases, phaseFrom, phaseTo,
                  workPhases, timeframe, minutesWorked >>
  /\ UNCHANGED otherVars

Enter ==
  /\ pc = "calculateWorkPhases"
  /\ Len(timeline) > 0
  /\ phaseFrom' = ToISO(FromISO(timeline[1].date))
  /\ phaseTo' = Undefined
  /\ phases' = << >>
  /\ i' = 0
  /\ pc' = "loop"
  /\ UNCHANGED << timeline, threshold, workPhases, timeframe, minutesWorked >>
  /\ UNCHANGED otherVars

\* the comparison with >= in place of >
IsBreak_AtThreshold(minutes, t) == minutes # Undefined /\ minutes >= t

\* `minutes > 60 * 4`, `minutes > options.threshold`; a comparison with
\* the undefined minutes of an invalid Duration is false
IsBreak(minutes, t) == minutes # Undefined /\ minutes > t

\* the gap branch without `phaseFrom = toDate.toISO()`
LoopClose_KeepPhaseFrom ==
  /\ pc = "loop"
  /\ i < Len(timeline) - 1
  /\ LET fromDate == FromISO(timeline[i + 1].date)
         toDate == FromISO(timeline[i + 2].date)
         minutes == DiffMinutes(toDate, fromDate)
     IN  /\ IsBreak(minutes, threshold)
         /\ phases' = Append(phases,
                             [from |-> phaseFrom,
                              to |-> ToISO(Plus(fromDate, PADDING))])
  /\ i' = i + 1
  /\ UNCHANGED << timeline, threshold, pc, phaseFrom, phaseTo, workPhases,
                  timeframe, minutesWorked >>
  /\ UNCHANGED otherVars

\* the gap branch adding the padding to the later event of the pair
LoopClose_PadToDate ==
  /\ pc = "loop"
  /\ i < Len(timeline) - 1
  /\ LET fromDate == FromISO(timeline[i + 1].date)
         toDate == FromISO(timeline[i + 2].date)
         minutes == DiffMinutes(toDate, fromDate)
     IN  /\ IsBreak(minutes, threshold)
         /\ phases' = Append(phases,
                             [from |-> phaseFrom,
                              to |-> ToISO(Plus(toDate, PADDING))])
         /\ phaseFrom' = ToISO(toDate)
  /\ i' = i + 1
  /\ UNCHANGED << timeline, threshold, pc, phaseTo, workPhases, timeframe,
                  minutesWorked >>
  /\ UNCHANGED otherVars

\* one iteration with minutes > threshold: close the phase, open the next
LoopClose ==
  /\ pc = "loop"
  /\ i < Len(timeline) - 1
  /\ LET fromDate == FromISO(timeline[i + 1].date)
         toDate == FromISO(timeline[i + 2].date)
         minutes == DiffMinutes(toDate, fromDate)
     IN  /\ IsBreak(minutes, threshold)
         /\ phases' = Append(phases,
                             [from |-> phaseFrom,
                              to |-> ToISO(Plus(fromDate, PADDING))])
         /\ phaseFrom' = ToISO(toDate)
  /\ i' = i + 1
  /\ UNCHANGED << timeline, threshold, pc, phaseTo, workPhases, timeframe,
                  minutesWorked >>
  /\ UNCHANGED otherVars

\* the else branch taking the earlier event of the pair as provisional end
LoopExtend_FromDate ==
  /\ pc = "loop"
  /\ i < Len(timeline) - 1
  /\ LET fromDate == FromISO(timeline[i + 1].date)
         toDate == FromISO(timeline[i + 2].date)
         minutes == DiffMinutes(toDate, fromDate)
     IN  /\ ~IsBreak(minutes, threshold)
         /\ phaseTo' = ToISO(fromDate)
  /\ i' = i + 1
  /\ UNCHANGED << timeline, threshold, pc, phases, phaseFrom, workPhases,
                  timeframe, minutesWorked >>
  /\ UNCHANGED otherVars

\* one iteration with minutes <= threshold: move the provisional end
LoopExtend ==
  /\ pc = "loop"
  /\ i < Len(timeline) - 1
  /\ LET fromDate == FromISO(timeline[i + 1].date)
         toDate == FromISO(timeline[i + 2].date)
         minutes == DiffMinutes(toDate, fromDate)
     IN  /\ ~IsBreak(minutes, threshold)
         /\ phaseTo' = ToISO(toDate)
  /\ i' = i + 1
  /\ UNCHANGED << timeline, threshold, pc, phases, phaseFrom, workPhases,
                  timeframe, minutesWorked >>
  /\ UNCHANGED otherVars

\* the Interval of one { from, to } entry
PhaseInterval(phase) == FromDateTimes(FromISO(phase.from), FromISO(phase.to))

\* after the loop: push the last phase and map all phases to Intervals
Return ==
  /\ pc = "loop"
  /\ ~(i < Len(timeline) - 1)
  /\ phases' = Append(phases, [from |-> phaseFrom, to |-> phaseTo])
  /\ workPhases' = [k \in 1 .. Len(phases') |-> PhaseInterval(phases'[k])]
  /\ pc' = "report"
  /\ UNCHANGED << timeline, threshold, i, phaseFrom, phaseTo, timeframe,
                  minutesWorked >>
  /\ UNCHANGED otherVars

\* ------------------------------------------------------------------ report
QueryIntervals ==
  { FromDateTimes(s, e) : s \in QueryInstants, e \in QueryInstants } \
    { InvalidInterval }

\* one call of getWorkDuringTimeframe that returns
Query ==
  /\ pc = "report"
  /\ \E tf \in QueryIntervals, nullOnEmpty \in BOOLEAN :
       LET r == getWorkDuringTimeframe(workPhases, tf, nullOnEmpty)
       IN  /\ ~r.threw
           /\ timeframe' = tf
           /\ minutesWorked' = r.minutes
  /\ UNCHANGED << timeline, threshold, pc, i, phases, phaseFrom, phaseTo,
                  workPhases >>
  /\ UNCHANGED otherVars

\* one call of getWorkDuringTimeframe that ends the run with a TypeError
QueryThrows ==
  /\ pc = "report"
  /\ \E tf \in QueryIntervals, nullOnEmpty \in BOOLEAN :
       /\ getWorkDuringTimeframe(workPhases, tf, nullOnEmpty).threw
       /\ timeframe' = tf
  /\ pc' = "TypeError"
  /\ UNCHANGED << timeline, threshold, i, phases, phaseFrom, phaseTo,
                  workPhases, minutesWorked >>
  /\ UNCHANGED otherVars

Next ==
  \/ EnterThrows
  \/ Enter
  \/ LoopClose
  \/ LoopExtend
  \/ Return
  \/ Query
  \/ QueryThrows

Spec == Init /\ [][Next]_vars

\* ------------------------------------------------------------- properties
\* calculateWorkPhases has returned and no later query has thrown
Returned == pc = "report"

\* a query has returned minutesWorked for timeframe
Queried == pc = "report" /\ IsValid(timeframe)

Gap(k) == timeline[k + 1].date - timeline[k].date

\* the pairs of consecutive events that are more than the threshold apart
LargeGaps == { k \in 1 .. Len(timeline) - 1 : Gap(k) > threshold }

\* the phases (by index) whose interval contains the instant t
PhasesContaining(t) ==
  { j \in 1 .. Len(workPhases) :
      /\ IsValid(workPhases[j])
      /\ workPhases[j].s <= t
      /\ t <= workPhases[j].e }

RECURSIVE SumOfDurations(_)
SumOfDurations(list) ==
  IF list = << >> THEN 0
  ELSE (Head(list).e - Head(list).s) + SumOfDurations(Tail(list))

\* C1: every interval returned for a non-empty timeline has a defined start
\* and a defined end with start <= end, the last phase included.
C1_EveryPhaseHasStartAndEnd ==
  (Returned /\ Len(timeline) > 0) =>
    \A k \in 1 .. Len(workPhases) :
      /\ IsValid(workPhases[k])
      /\ workPhases[k].s # Undefined
      /\ workPhases[k].e # Undefined
      /\ workPhases[k].s <= workPhases[k].e

\* C2: for every threshold the returned list is sorted ascending by start
\* and consecutive phases p, q do not overlap: p.end <= q.start.  Stated
\* over the consecutive phases that have a start and an end.
C2_SortedAndDisjoint ==
  Returned =>
    \A k \in 1 .. Len(workPhases) - 1 :
      (IsValid(workPhases[k]) /\ IsValid(workPhases[k + 1])) =>
        /\ workPhases[k].s <= workPhases[k + 1].s
        /\ workPhases[k].e <= workPhases[k + 1].s

\* C3: an empty timeline gives an empty phase list without an error, and
\* every later query against it returns 0.
C3_EmptyTimelineGivesEmptyList ==
  (Len(timeline) = 0 /\ pc # "calculateWorkPhases") =>
    /\ pc = "report"
    /\ workPhases = << >>
    /\ (IsValid(timeframe) => minutesWorked = 0)

\* C4: a timeline of one event gives exactly one phase that starts at the
\* event and has a defined end >= start.
C4_SingleEventGivesOnePhase ==
  (Returned /\ Len(timeline) = 1) =>
    /\ Len(workPhases) = 1
    /\ IsValid(workPhases[1])
    /\ workPhases[1].s = timeline[1].date
    /\ workPhases[1].e # Undefined
    /\ workPhases[1].e >= workPhases[1].s

\* C5: a new phase is opened at event[i+1] exactly when the gap between
\* event[i] and event[i+1] is > T: the list has 1 + (number of gaps > T)
\* phases, the first opened at the first event and the phase after the
\* n-th large gap opened at the event that follows this gap.
C5_PhaseOpenedExactlyAtLargeGaps ==
  Returned =>
    /\ Len(workPhases) = 1 + Cardinality(LargeGaps)
    /\ Len(phases) = Len(workPhases)
    /\ phases[1].from = timeline[1].date
    /\ \A k \in LargeGaps :
         phases[1 + Cardinality({ j \in LargeGaps : j <= k })].from =
           timeline[k + 1].date

\* C5 witness: three events, one gap exactly at the threshold (same phase)
\* and one gap above it (new phase)
C5_Witness ==
  /\ Returned
  /\ Len(timeline) = 3
  /\ \E k \in 1 .. 2 : Gap(k) = threshold
  /\ Cardinality(LargeGaps) = 1

\* C6: every event lies inside exactly one returned phase.
C6_EveryEventInExactlyOnePhase ==
  (Returned /\ Len(timeline) > 0) =>
    \A k \in 1 .. Len(timeline) :
      Cardinality(PhasesContaining(timeline[k].date)) = 1

\* at least two events and every consecutive gap <= T
AllGapsWithin == Len(timeline) >= 2 /\ LargeGaps = {}

\* C7 as stated: with all gaps <= T there is exactly one phase, from the
\* first event to the last event plus the 5 minute padding.
C7_OnePhaseEndsAtLastPlusPadding ==
  (Returned /\ AllGapsWithin) =>
    /\ Len(workPhases) = 1
    /\ IsValid(workPhases[1])
    /\ workPhases[1].s = timeline[1].date
    /\ workPhases[1].e = timeline[Len(timeline)].date + PADDING

\* C7 amended: with all gaps <= T there is exactly one phase, from the
\* first event to the last event; the last phase gets no padding.
C7_OnePhaseEndsAtLastEvent ==
  (Returned /\ AllGapsWithin) =>
    /\ Len(workPhases) = 1
    /\ IsValid(workPhases[1])
    /\ workPhases[1].s = timeline[1].date
    /\ workPhases[1].e = timeline[Len(timeline)].date

\* C7 witness: three events at three different instants in one phase
C7_Witness ==
  /\ Returned
  /\ AllGapsWithin
  /\ Len(timeline) = 3
  /\ Gap(1) > 0
  /\ Gap(2) > 0

\* C8: with T <= 0 there is one phase per event, the i-th starting at the
\* i-th event; with T = 0 and events at different instants every phase is
\* one instant long.
C8_NonPositiveThresholdOnePhasePerEvent ==
  (Returned /\ threshold <= 0) =>
    /\ Len(workPhases) = Len(timeline)
    /\ \A k \in 1 .. Len(workPhases) :
         /\ IsValid(workPhases[k])
         /\ workPhases[k].s = timeline[k].date
    /\ (threshold = 0 /\ \A k \in 1 .. Len(timeline) - 1 : Gap(k) > 0) =>
         \A k \in 1 .. Len(workPhases) : workPhases[k].s = workPhases[k].e

\* the query interval starts no later than the first phase and ends no
\* earlier than the last phase
TimeframeContainsAllPhases ==
  \A k \in 1 .. Len(workPhases) :
    IsValid(workPhases[k]) =>
      /\ timeframe.s <= workPhases[k].s
      /\ workPhases[k].e <= timeframe.e

\* C9: a query interval that contains all phases gets the sum over all
\* phases of (end - start).
C9_FullQueryReturnsSumOfPhases ==
  (Queried /\ TimeframeContainsAllPhases) =>
    /\ \A k \in 1 .. Len(workPhases) : IsValid(workPhases[k])
    /\ minutesWorked = SumOfDurations(workPhases)

\* C10: the value of a query is >= 0 and <= the length of the query
\* interval, and it is 0 when no phase shares an instant with the interval.
C10_QueryWithinIntervalLength ==
  Queried =>
    /\ minutesWorked >= 0
    /\ minutesWorked <= timeframe.e - timeframe.s
    /\ (\A k \in 1 .. Len(workPhases) :
          ~(/\ IsValid(workPhases[k])
            /\ workPhases[k].s < timeframe.e
            /\ timeframe.s < workPhases[k].e)) => minutesWorked = 0

\* the index of the phase that is open after the pair k of events
PhaseAfterGap(k) == 1 + Cardinality({ j \in LargeGaps : j <= k })

\* C14 as stated: adjacent phases p and q are separated by at least the
\* threshold, q.start - p.end >= T.
C14_AdjacentSeparatedByThreshold ==
  Returned =>
    \A k \in 1 .. Len(workPhases) - 1 :
      (IsValid(workPhases[k]) /\ IsValid(workPhases[k + 1])) =>
        workPhases[k + 1].s - workPhases[k].e >= threshold

\* C14 amended: a phase p that is followed by a phase q ends 5 minutes
\* after its last event, and the event that opens q lies more than T minus
\* these 5 minutes after p.end.
C14_AdjacentSeparatedByThresholdLessPadding ==
  Returned =>
    \A k \in LargeGaps :
      LET p == PhaseAfterGap(k) - 1
      IN  /\ IsValid(workPhases[p])
          /\ workPhases[p].e = timeline[k].date + PADDING
          /\ phases[p + 1].from = timeline[k + 1].date
          /\ phases[p + 1].from - workPhases[p].e > threshold - PADDING
          /\ IsValid(workPhases[p + 1]) =>
               workPhases[p + 1].s - workPhases[p].e > threshold - PADDING

\* C14 witness: two valid adjacent phases that are less than the threshold
\* apart
C14_Witness ==
  /\ Returned
  /\ Len(workPhases) = 2
  /\ IsValid(workPhases[1])
  /\ IsValid(workPhases[2])
  /\ threshold > PADDING
  /\ workPhases[2].s - workPhases[1].e < threshold

\* the first event of the burst that the pair k of events ends
BurstStart(k) ==
  LET earlier == { j \in LargeGaps : j < k }
  IN  IF earlier = {} THEN 1
      ELSE 1 + CHOOSE j \in earlier : \A h \in earlier : h <= j

DatesOrUndefined == Instants \cup {Undefined}

\* timelines with at least one such event; the comparator of the sort
\* answers 0 for it, so it stays where it was inserted, and neighbours that
\* both have a date are ascending
MalformedTimelines ==
  UNION { { t \in [1 .. n -> [date : DatesOrUndefined]] :
              /\ \E k \in 1 .. n : t[k].date = Undefined
              /\ \A k \in 1 .. n - 1 :
                   (t[k].date # Undefined /\ t[k + 1].date # Undefined) =>
                     t[k].date <= t[k + 1].date } :
          n \in 1 .. MaxLen }

InitMalformed ==
  /\ timeline \in MalformedTimelines
  /\ threshold \in Thresholds
  /\ pc = "calculateWorkPhases"
  /\ i = 0
  /\ phases = << >>
  /\ phaseFrom = Undefined
  /\ phaseTo = Undefined
  /\ workPhases = << >>
  /\ timeframe = InvalidInterval
  /\ minutesWorked = 0
  /\ gather = Idle
  /\ fetch = Idle
  /\ paging = Idle
  /\ cell = Idle
  /\ report = Idle

NextMalformed ==
  \/ Enter
  \/ LoopClose
  \/ LoopExtend
  \/ Return

SpecMalformed == InitMalformed /\ [][NextMalformed]_vars

\* C12: calculateWorkPhases never returns a phase list computed from a
\* timeline that holds an event with a missing or unparseable date: the
\* run aborts with a parse error before.
C12_MalformedDateAborts ==
  (\E k \in 1 .. Len(timeline) : timeline[k].date = Undefined) => ~Returned

\* ---------------------------------------------------------- gatherAllEvents
MaxFiles == 2

MaxCommits == 1

MaxIssues == 1

\* the date strings of the JSON files: all of the one form GitHub sends,
\* digits of fixed width, here two digits
DateStrings == [1 .. 2 -> 0 .. 1]

\* the instant a date string denotes (DateTime.fromISO)
InstantOf(date) == date[1] * 10 + date[2]

\* `a < b` of two strings: the first differing character decides
RECURSIVE StringLess(_, _)
StringLess(a, b) ==
  IF a = << >> THEN b # << >>
  ELSE IF b = << >> THEN FALSE
  ELSE IF Head(a) # Head(b) THEN Head(a) < Head(b)
  ELSE StringLess(Tail(a), Tail(b))

\* a comparator ordering the strings by their last character first
CompareDates_LastCharacter(a, b) ==
  IF a.date[2] < b.date[2] THEN -1
  ELSE IF a.date[2] > b.date[2] THEN 1
  ELSE IF a.date[1] < b.date[1] THEN -1
  ELSE IF a.date[1] > b.date[1] THEN 1
  ELSE 0

\* the comparator of the sort: a.date < b.date ? -1 : a.date > b.date ? 1 : 0
CompareDates(a, b) ==
  IF StringLess(a.date, b.date) THEN -1
  ELSE IF StringLess(b.date, a.date) THEN 1
  ELSE 0

\* Array#sort with the comparator, a stable sort: the entry is put behind
\* the entries that do not compare greater
RECURSIVE InsertEvent(_, _)
InsertEvent(sorted, event) ==
  IF sorted = << >> THEN << event >>
  ELSE IF CompareDates(Head(sorted), event) <= 0
    THEN << Head(sorted) >> \o InsertEvent(Tail(sorted), event)
    ELSE << event >> \o sorted

RECURSIVE SortEvents(_)
SortEvents(events) ==
  IF events = << >> THEN << >>
  ELSE InsertEvent(SortEvents(SubSeq(events, 1, Len(events) - 1)),
                   events[Len(events)])

\* the content of one JSON file: { commits, issues }
JSONFiles ==
  { [commits |-> c, issues |-> s] :
      c \in UNION { [1 .. n -> DateStrings] : n \in 0 .. MaxCommits },
      s \in UNION { [1 .. n -> DateStrings] : n \in 0 .. MaxIssues } }

\* the timeline entries of the commits and of the issues of file f; data
\* names the entry of the file
CommitEvents(file, f) ==
  [k \in 1 .. Len(file.commits) |->
     [type |-> "commit", date |-> file.commits[k], data |-> << f, 0, k >>]]

IssueEvents(file, f) ==
  [k \in 1 .. Len(file.issues) |->
     [type |-> "issue", date |-> file.issues[k], data |-> << f, 1, k >>]]

InitGather ==
  /\ \E files \in UNION { [1 .. n -> JSONFiles] : n \in 0 .. MaxFiles } :
       gather = [pc |-> "files", files |-> files, file |-> 1,
                 timeline |-> << >>]
  /\ timeline = << >>
  /\ threshold = THRESHOLD_ANALYSE
  /\ pc = "gatherAllEvents"
  /\ i = 0
  /\ phases = << >>
  /\ phaseFrom = Undefined
  /\ phaseTo = Undefined
  /\ workPhases = << >>
  /\ timeframe = InvalidInterval
  /\ minutesWorked = 0
  /\ fetch = Idle
  /\ paging = Idle
  /\ cell = Idle
  /\ report = Idle

\* one iteration of `for (const file of files)`: push the commits, then the
\* issues of the file
ReadFile ==
  /\ gather.pc = "files"
  /\ gather.file <= Len(gather.files)
  /\ LET file == gather.files[gather.file]
     IN  gather' = [gather EXCEPT
           !.timeline = @ \o CommitEvents(file, gather.file)
                          \o IssueEvents(file, gather.file),
           !.file = @ + 1]
  /\ UNCHANGED << analyseVars, fetch, paging, cell, report >>

\* after the loop: return timeline.sort(...)
SortTimeline ==
  /\ gather.pc = "files"
  /\ gather.file > Len(gather.files)
  /\ gather' = [gather EXCEPT !.timeline = SortEvents(@), !.pc = "returned"]
  /\ UNCHANGED << analyseVars, fetch, paging, cell, report >>

NextGather ==
  \/ ReadFile
  \/ SortTimeline

SpecGather == InitGather /\ [][NextGather]_vars

\* every entry of every loaded file, in the order of insertion
AllEntries ==
  { << f, 0, k >> : f \in 1 .. Len(gather.files), k \in 1 .. MaxCommits } \cup
  { << f, 1, k >> : f \in 1 .. Len(gather.files), k \in 1 .. MaxIssues }

LoadedEntries ==
  { e \in AllEntries :
      IF e[2] = 0 THEN e[3] <= Len(gather.files[e[1]].commits)
                  ELSE e[3] <= Len(gather.files[e[1]].issues) }

DateOfEntry(e) ==
  IF e[2] = 0 THEN gather.files[e[1]].commits[e[3]]
              ELSE gather.files[e[1]].issues[e[3]]

\* e was pushed before d
InsertedBefore(e, d) ==
  \/ e[1] < d[1]
  \/ e[1] = d[1] /\ e[2] < d[2]
  \/ e[1] = d[1] /\ e[2] = d[2] /\ e[3] < d[3]

\* C11: the returned timeline is a permutation of all commit and issue
\* entries of the loaded files, ascending by the instant of the date (and
\* by the date strings compared lexically), entries of equal timestamp in
\* insertion order; without entries it is empty.
C11_TimelineIsStableSortedPermutation ==
  gather.pc = "returned" =>
    LET t == gather.timeline
    IN  /\ Len(t) = Cardinality(LoadedEntries)
        /\ \A e \in LoadedEntries :
             \E k \in 1 .. Len(t) :
               /\ t[k].data = e
               /\ t[k].date = DateOfEntry(e)
               /\ t[k].type = (IF e[2] = 0 THEN "commit" ELSE "issue")
        /\ \A k \in 1 .. Len(t) - 1 :
             /\ InstantOf(t[k].date) <= InstantOf(t[k + 1].date)
             /\ ~StringLess(t[k + 1].date, t[k].date)
             /\ InstantOf(t[k].date) = InstantOf(t[k + 1].date) =>
                  InsertedBefore(t[k].data, t[k + 1].data)
        /\ LoadedEntries = {} => t = << >>

\* C11 witness: a returned timeline whose entries were inserted in another
\* order, with two entries of the same date
C11_Witness ==
  /\ gather.pc = "returned"
  /\ Len(gather.timeline) >= 3
  /\ \E k \in 1 .. Len(gather.timeline) - 1 :
       gather.timeline[k].date = gather.timeline[k + 1].date
  /\ \E k \in 1 .. Len(gather.timeline) - 1 :
       InsertedBefore(gather.timeline[k + 1].data, gather.timeline[k].data)

\* ------------------------------------------------------------ getCommitData
MaxSha == 2

MaxMain == 2

MaxPullRequests == 2

MaxPullRequestCommits == 2

\* findPullRequest: 0 stands for undefined, no "(#n)" in the first line
NoPullRequest == 0

\* the two fetch scripts: src/fetch.mjs removes duplicates, src/index.mjs
\* throws on the first one
Scripts == {"src/fetch.mjs", "src/index.mjs"}

\* the commits of the repository as the API lists them: the sha and the
\* pull request the first line of the message names
RemoteCommits ==
  UNION { [1 .. n -> [sha : 1 .. MaxSha,
                      pr : {NoPullRequest} \cup (1 .. MaxPullRequests)]] :
          n \in 0 .. MaxMain }

\* the commits of every pull request as the API lists them
RemotePullRequests ==
  [1 .. MaxPullRequests ->
     UNION { [1 .. n -> 1 .. MaxSha] : n \in 0 .. MaxPullRequestCommits }]

InitFetch ==
  /\ \E script \in Scripts, remote \in RemoteCommits,
        pulls \in RemotePullRequests :
       fetch = [pc |-> "fetchAllCommits", script |-> script,
                remote |-> remote, pulls |-> pulls, commits |-> << >>,
                pullRequestIds |-> << >>, next |-> 1, result |-> << >>]
  /\ timeline = << >>
  /\ threshold = THRESHOLD_ANALYSE
  /\ pc = "fetch"
  /\ i = 0
  /\ phases = << >>
  /\ phaseFrom = Undefined
  /\ phaseTo = Undefined
  /\ workPhases = << >>
  /\ timeframe = InvalidInterval
  /\ minutesWorked = 0
  /\ gather = Idle
  /\ paging = Idle
  /\ cell = Idle
  /\ report = Idle

\* fetchAllCommits: the commits of the main list, not yet tagged
FetchAllCommits ==
  /\ fetch.pc = "fetchAllCommits"
  /\ fetch' = [fetch EXCEPT
       !.commits = [k \in 1 .. Len(fetch.remote) |->
                      [sha |-> fetch.remote[k].sha,
                       pr |-> fetch.remote[k].pr,
                       isSquashMerge |-> FALSE,
                       isFromPullRequest |-> FALSE]],
       !.pc = "findAssociatedPRs"]
  /\ UNCHANGED << analyseVars, gather, paging, cell, report >>

\* the pull request ids of the commits, one per commit that names one
RECURSIVE PullRequestIdsOf(_)
PullRequestIdsOf(commits) ==
  IF commits = << >> THEN << >>
  ELSE (IF Head(commits).pr # NoPullRequest
          THEN << Head(commits).pr >> ELSE << >>)
       \o PullRequestIdsOf(Tail(commits))

\* findAssociatedPRs: tag every commit and collect the pull request ids
FindAssociatedPRs ==
  /\ fetch.pc = "findAssociatedPRs"
  /\ fetch' = [fetch EXCEPT
       !.commits = [k \in 1 .. Len(fetch.commits) |->
                      [fetch.commits[k] EXCEPT
                         !.isSquashMerge = (fetch.commits[k].pr # NoPullRequest),
                         !.isFromPullRequest = FALSE]],
       !.pullRequestIds = PullRequestIdsOf(fetch.commits),
       !.pc = "pullRequests"]
  /\ UNCHANGED << analyseVars, gather, paging, cell, report >>

\* one iteration of `for (const pullRequestId of pullRequestIds)`:
\* fetchCommitsInPullRequest and push its commits to the others
FetchCommitsInPullRequest ==
  /\ fetch.pc = "pullRequests"
  /\ fetch.next <= Len(fetch.pullRequestIds)
  /\ LET pullRequestId == fetch.pullRequestIds[fetch.next]
         shas == fetch.pulls[pullRequestId]
         prCommits == [k \in 1 .. Len(shas) |->
                         [sha |-> shas[k], pr |-> pullRequestId,
                          isSquashMerge |-> FALSE,
                          isFromPullRequest |-> TRUE]]
     IN  fetch' = [fetch EXCEPT !.commits = @ \o prCommits, !.next = @ + 1]
  /\ UNCHANGED << analyseVars, gather, paging, cell, report >>

\* filterPlainCommits
RECURSIVE filterPlainCommits(_)
filterPlainCommits(commits) ==
  IF commits = << >> THEN << >>
  ELSE (IF ~Head(commits).isSquashMerge THEN << Head(commits) >> ELSE << >>)
       \o filterPlainCommits(Tail(commits))

\* a reduce that compares a commit with the last hash only
RECURSIVE RemoveDuplicates_LastOnly(_, _)
RemoveDuplicates_LastOnly(commits, hashes) ==
  IF commits = << >> THEN << >>
  ELSE IF hashes # << >> /\ hashes[Len(hashes)] = Head(commits).sha
    THEN RemoveDuplicates_LastOnly(Tail(commits), hashes)
    ELSE << Head(commits) >> \o
         RemoveDuplicates_LastOnly(Tail(commits),
                                   Append(hashes, Head(commits).sha))

\* the reduce of src/fetch.mjs: keep a commit when acc.hashes does not
\* include its sha
RECURSIVE RemoveDuplicates(_, _)
RemoveDuplicates(commits, hashes) ==
  IF commits = << >> THEN << >>
  ELSE IF \E k \in 1 .. Len(hashes) : hashes[k] = Head(commits).sha
    THEN RemoveDuplicates(Tail(commits), hashes)
    ELSE << Head(commits) >> \o
         RemoveDuplicates(Tail(commits), Append(hashes, Head(commits).sha))

HasDuplicate(commits) ==
  \E a, b \in 1 .. Len(commits) : a < b /\ commits[a].sha = commits[b].sha

\* src/fetch.mjs, after the loop: filter, remove duplicates, return
ReturnWithoutDuplicates ==
  /\ fetch.pc = "pullRequests"
  /\ fetch.next > Len(fetch.pullRequestIds)
  /\ fetch.script = "src/fetch.mjs"
  /\ fetch' = [fetch EXCEPT
       !.result = RemoveDuplicates(filterPlainCommits(fetch.commits), << >>),
       !.pc = "returned"]
  /\ UNCHANGED << analyseVars, gather, paging, cell, report >>

\* src/index.mjs, after the loop: filter, check, return
ReturnChecked ==
  /\ fetch.pc = "pullRequests"
  /\ fetch.next > Len(fetch.pullRequestIds)
  /\ fetch.script = "src/index.mjs"
  /\ ~HasDuplicate(filterPlainCommits(fetch.commits))
  /\ fetch' = [fetch EXCEPT
       !.result = filterPlainCommits(fetch.commits),
       !.pc = "returned"]
  /\ UNCHANGED << analyseVars, gather, paging, cell, report >>

\* src/index.mjs: throw Error('Duplicate!')
ThrowDuplicate ==
  /\ fetch.pc = "pullRequests"
  /\ fetch.next > Len(fetch.pullRequestIds)
  /\ fetch.script = "src/index.mjs"
  /\ HasDuplicate(filterPlainCommits(fetch.commits))
  /\ fetch' = [fetch EXCEPT !.pc = "Error"]
  /\ UNCHANGED << analyseVars, gather, paging, cell, report >>

NextFetch ==
  \/ FetchAllCommits
  \/ FindAssociatedPRs
  \/ FetchCommitsInPullRequest
  \/ ReturnWithoutDuplicates
  \/ ReturnChecked
  \/ ThrowDuplicate

SpecFetch == InitFetch /\ [][NextFetch]_vars

\* the places of the commits that are not flagged as squash merge
PlainPlaces ==
  { k \in 1 .. Len(fetch.commits) : ~fetch.commits[k].isSquashMerge }

\* the place of the first commit with this sha among them
FirstPlace(sha) ==
  CHOOSE k \in PlainPlaces :
    /\ fetch.commits[k].sha = sha
    /\ \A j \in PlainPlaces : fetch.commits[j].sha = sha => k <= j

MaxPages == 3

MaxPageSize == 2

MaxItem == 2

\* what the API can answer for one page: up to MaxPageSize items
PageContents == UNION { [1 .. n -> 1 .. MaxItem] : n \in 0 .. MaxPageSize }

\* the API: the content of the pages 1, 2, ..., and `beyond`, the content
\* of every page behind them (empty, or never empty)
RemotePages == UNION { [1 .. n -> PageContents] : n \in 0 .. MaxPages }

\* the loop has no bound of its own; the model follows it this far
PageCap == MaxPages + 2

\* the response.data of a request for page n
PageContent(n) ==
  IF n <= Len(paging.remote) THEN paging.remote[n] ELSE paging.beyond

InitPaging ==
  /\ \E remote \in RemotePages, beyond \in {<< >>, << 1 >>} :
       paging = [pc |-> "request", remote |-> remote, beyond |-> beyond,
                 page |-> 1, result |-> << >>, requested |-> << >>]
  /\ timeline = << >>
  /\ threshold = THRESHOLD_ANALYSE
  /\ pc = "fetch"
  /\ i = 0
  /\ phases = << >>
  /\ phaseFrom = Undefined
  /\ phaseTo = Undefined
  /\ workPhases = << >>
  /\ timeframe = InvalidInterval
  /\ minutesWorked = 0
  /\ gather = Idle
  /\ fetch = Idle
  /\ cell = Idle
  /\ report = Idle

\* `await octokit.request(..., page)`: the request for the page is sent
RequestPage ==
  /\ paging.pc = "request"
  /\ paging.page <= PageCap
  /\ paging' = [paging EXCEPT !.requested = Append(@, paging.page),
                              !.pc = "await"]
  /\ UNCHANGED << analyseVars, gather, fetch, cell, report >>

\* a response handler that puts the items in front of the result
ReceiveItems_InFront ==
  /\ paging.pc = "await"
  /\ Len(PageContent(paging.page)) > 0
  /\ paging' = [paging EXCEPT !.result = PageContent(paging.page) \o @,
                              !.page = @ + 1,
                              !.pc = "request"]
  /\ UNCHANGED << analyseVars, gather, fetch, cell, report >>

\* the response has items: push every item, page += 1, next iteration
ReceiveItems ==
  /\ paging.pc = "await"
  /\ Len(PageContent(paging.page)) > 0
  /\ paging' = [paging EXCEPT !.result = @ \o PageContent(paging.page),
                              !.page = @ + 1,
                              !.pc = "request"]
  /\ UNCHANGED << analyseVars, gather, fetch, cell, report >>

\* the response is empty: break, return result
ReceiveEmpty ==
  /\ paging.pc = "await"
  /\ ~(Len(PageContent(paging.page)) > 0)
  /\ paging' = [paging EXCEPT !.pc = "returned"]
  /\ UNCHANGED << analyseVars, gather, fetch, cell, report >>

NextPaging ==
  \/ RequestPage
  \/ ReceiveItems
  \/ ReceiveEmpty

\* the loop is sequential code and every request is answered: a step that
\* can be taken is taken
SpecPaging == InitPaging /\ [][NextPaging]_vars /\ WF_vars(NextPaging)

\* the API answers some page with an empty list
SomePageEmpty ==
  \/ paging.beyond = << >>
  \/ \E n \in 1 .. Len(paging.remote) : paging.remote[n] = << >>

RECURSIVE ConcatPages(_)
ConcatPages(n) == IF n = 0 THEN << >> ELSE ConcatPages(n - 1) \o PageContent(n)

\* pages 1, 2, ... are requested in order, one at a time; nothing is
\* requested behind an empty page; the result is the concatenation of the
\* pages received; the loop only returns on an empty page
PagingInOrder ==
  /\ paging.requested = [n \in 1 .. Len(paging.requested) |-> n]
  /\ Len(paging.requested) =
       (IF paging.pc = "request" THEN paging.page - 1 ELSE paging.page)
  /\ \A n \in 1 .. Len(paging.requested) - 1 : PageContent(n) # << >>
  /\ paging.result = ConcatPages(paging.page - 1)
  /\ paging.pc = "returned" =>
       /\ PageContent(paging.page) = << >>
       /\ SomePageEmpty

\* C17: requestAll requests the pages 1, 2, 3, ... in order, one at a
\* time, stops at the first empty page and returns the concatenation of the
\* pages before it; it terminates when the API answers some page with an
\* empty list and never returns when it does not.
C17_RequestAllStopsAtFirstEmptyPage ==
  /\ [] PagingInOrder
  /\ <>(paging.pc = "returned" \/ ~SomePageEmpty)

\* C17 witness: returned after two pages with items, with a page with
\* items behind the empty page that was never requested
C17_Witness ==
  /\ paging.pc = "returned"
  /\ paging.page = 3
  /\ Len(paging.result) >= 3
  /\ paging.beyond # << >>

\* ------------------------------------------------- printCalendar: the cells
MaxPerInstant == 5

\* const DURATION = 30 / CELL_DURATION = 30, in minutes
CELL_DURATION == 30

\* (24 * 60) / CELL_DURATION
CellsPerDay == (24 * 60) \div CELL_DURATION

\* minutes of the day that carry events: first and last minute of the first
\* two cells
CellInstants == << 0, CELL_DURATION - 1, CELL_DURATION, 2 * CELL_DURATION - 1 >>

\* Interval#contains: this.s <= dateTime && this.e > dateTime
Contains(interval, dateTime) ==
  /\ IsValid(interval)
  /\ interval.s <= dateTime
  /\ interval.e > dateTime

\* n events at the minute t
RECURSIVE EventsAt(_, _)
EventsAt(t, n) ==
  IF n = 0 THEN << >> ELSE << [date |-> t] >> \o EventsAt(t, n - 1)

\* eventsByDay[day]: the events of the day, counts[k] of them at the
\* minute CellInstants[k]
RECURSIVE EventsOfDay(_, _)
EventsOfDay(counts, k) ==
  IF k = 0 THEN << >>
  ELSE EventsOfDay(counts, k - 1) \o EventsAt(CellInstants[k], counts[k])

\* the intensity character of a cell with n events: ' ', the quarter, half
\* and three-quarter circles, the full circle
IntensityChar(n) ==
  IF n = 0 THEN "blank"
  ELSE IF n = 1 THEN "quarter"
  ELSE IF n > 1 /\ n < 4 THEN "half"
  ELSE IF n > 4 /\ n < 10 THEN "three-quarter"
  ELSE "full"

\* the events of the day inside the cell with this index
EventsInCell(events, index) ==
  LET cellFrom == Plus(0, CELL_DURATION * index)
      cellTo == Plus(cellFrom, CELL_DURATION)
      phase == FromDateTimes(cellFrom, cellTo)
  IN  SelectSeq(events, LAMBDA event : Contains(phase, FromISO(event.date)))

InitCell ==
  /\ \E counts \in [1 .. Len(CellInstants) -> 0 .. MaxPerInstant] :
       cell = [pc |-> "printCalendar",
               events |-> EventsOfDay(counts, Len(CellInstants)),
               cells |-> << >>]
  /\ timeline = << >>
  /\ threshold = THRESHOLD_ANALYSE
  /\ pc = "printCalendar"
  /\ i = 0
  /\ phases = << >>
  /\ phaseFrom = Undefined
  /\ phaseTo = Undefined
  /\ workPhases = << >>
  /\ timeframe = InvalidInterval
  /\ minutesWorked = 0
  /\ gather = Idle
  /\ fetch = Idle
  /\ paging = Idle
  /\ report = Idle

\* the cells of one day: new Array(48).fill(0).map((_, index) => ...)
PrintCells ==
  /\ cell.pc = "printCalendar"
  /\ cell' = [cell EXCEPT
       !.cells = [n \in 1 .. CellsPerDay |->
                    IntensityChar(Len(EventsInCell(cell.events, n - 1)))],
       !.pc = "printed"]
  /\ UNCHANGED << analyseVars, gather, fetch, paging, report >>

NextCell == PrintCells

SpecCell == InitCell /\ [][NextCell]_vars

\* the order of the intensity characters
IntensityRank(char) ==
  CASE char = "blank" -> 0
    [] char = "quarter" -> 1
    [] char = "half" -> 2
    [] char = "three-quarter" -> 3
    [] char = "full" -> 4

\* the number of events of the day in the n-th cell
EventCount(n) ==
  Cardinality({ k \in 1 .. Len(cell.events) :
                  /\ CELL_DURATION * (n - 1) <= cell.events[k].date
                  /\ cell.events[k].date < CELL_DURATION * n })

\* C18: a cell with more events never gets a lower intensity character
\* than a cell with fewer events.
C18_IntensityIsMonotone ==
  cell.pc = "printed" =>
    \A a, b \in 1 .. CellsPerDay :
      EventCount(a) <= EventCount(b) =>
        IntensityRank(cell.cells[a]) <= IntensityRank(cell.cells[b])

\* ------------------------------ printCalendar, printMonthSummary, printTotal
\* In this part an instant is a number of milliseconds, counted from
\* 2022-09-16T12:00:00.000, because endOf('day') and endOf('month') are one
\* millisecond short of the next day and month; a duration is the code's
\* minutes times MillisPerMinute.
MaxToDay == 2
MaxPhases == 2

\* toDuration(['minutes']): milliseconds of a minute
MillisPerMinute == 60000

\* days of the months around the end of the range, TO = '2022-09-30'
DaysInAugust == 31
DaysInSeptember == 30

MillisPerHour == 60 * MillisPerMinute
MillisPerDay == 24 * MillisPerHour

\* 2022-09-01T00:00:00.000 and 2022-10-01T00:00:00.000
September1 == 0 - (15 * MillisPerDay + 12 * MillisPerHour)
October1 == 14 * MillisPerDay + 12 * MillisPerHour

\* DateTime#startOf('day'), DateTime#endOf('day')
StartOfDay(dt) == dt - ((dt - September1) % MillisPerDay)
EndOfDay(dt) == StartOfDay(dt) + MillisPerDay - 1

\* DateTime#endOf('month'), for the months the model's ranges reach
EndOfMonth(dt) ==
  CASE dt < September1 -> September1 - 1
    [] dt >= September1 /\ dt < October1 -> October1 - 1

\* the day of the month, 1 based
DayOfMonth(dt) ==
  IF dt < September1
    THEN DaysInAugust - ((September1 - StartOfDay(dt)) \div MillisPerDay) + 1
    ELSE ((StartOfDay(dt) - September1) \div MillisPerDay) + 1

\* DateTime#plus({ month: 1 }): same day of the month and time of day in
\* the next month, the day clamped to the length of that month
PlusMonth(dt) ==
  LET timeOfDay == dt - StartOfDay(dt)
      day == DayOfMonth(dt)
  IN  IF dt < September1
        THEN LET clamped == IF day > DaysInSeptember
                              THEN DaysInSeptember ELSE day
             IN  October1 - (DaysInSeptember - clamped + 1) * MillisPerDay
                   + timeOfDay
        ELSE October1 + (day - 1) * MillisPerDay + timeOfDay

\* the values of FROM and of TO: midnights from 2022-08-31 on
RangeStarts == { September1 - MillisPerDay, September1 }
RangeEnds == { September1 + k * MillisPerDay : k \in 0 .. MaxToDay }

\* instants a work phase starts or ends at: 01:00 and 23:00 of the days
\* from 2022-08-31 to the day of the latest TO
PhaseInstants ==
  { September1 + k * MillisPerDay + h * MillisPerHour :
      k \in (0 - 1) .. MaxToDay, h \in {1, 23} }

\* the lists calculateWorkPhases returns: ascending intervals, and at the
\* end possibly the invalid interval of an undefined phaseTo
RECURSIVE PhaseListsFrom(_, _)
PhaseListsFrom(earliest, n) ==
  IF n = 0 THEN { << >> }
  ELSE { << >> } \cup
       { << FromDateTimes(s, e) >> \o rest :
           << s, e, rest >> \in
             { << s, e, rest >> \in
                 PhaseInstants \X PhaseInstants \X
                   UNION { PhaseListsFrom(t, n - 1) : t \in PhaseInstants } :
                 /\ earliest < s
                 /\ s < e
                 /\ rest = << >> \/ e < rest[1].s } }

PhaseLists ==
  LET valid == PhaseListsFrom(September1 - 2 * MillisPerDay, MaxPhases)
  IN  valid \cup { p \o << InvalidInterval >> : p \in valid }

InitReport ==
  /\ \E from \in RangeStarts, to \in RangeEnds, list \in PhaseLists :
       /\ from < to
       /\ report = [pc |-> "printCalendar",
                    from |-> from,
                    to |-> to,
                    phases |-> list,
                    currentDay |-> from - MillisPerDay,
                    days |-> << >>,
                    currentMonth |-> Undefined,
                    months |-> << >>,
                    total |-> Undefined]
  /\ timeline = << >>
  /\ threshold = THRESHOLD_ANALYSE
  /\ pc = "printCalendar"
  /\ i = 0
  /\ phases = << >>
  /\ phaseFrom = Undefined
  /\ phaseTo = Undefined
  /\ workPhases = << >>
  /\ timeframe = InvalidInterval
  /\ minutesWorked = 0
  /\ gather = Idle
  /\ fetch = Idle
  /\ paging = Idle
  /\ cell = Idle

\* one row of a report: the window and the work found in it.  No window
\* here has an empty intersection with a phase it overlaps.
ReportRow(workIntervals, window) ==
  [timeframe |-> window,
   minutesWorked |-> getWorkDuringTimeframe(workIntervals, window,
                                            FALSE).minutes]

\* printCalendar, one turn of `while (currentDay < to)`
PrintDay ==
  /\ report.pc = "printCalendar"
  /\ report.currentDay < report.to
  /\ LET nextDay == report.currentDay + MillisPerDay
         dayInterval == FromDateTimes(nextDay, EndOfDay(nextDay))
     IN  report' = [report EXCEPT
           !.currentDay = nextDay,
           !.days = Append(@, ReportRow(report.phases, dayInterval))]
  /\ UNCHANGED << analyseVars, gather, fetch, paging, cell >>

\* printCalendar returns, printMonthSummary starts with FROM
StartMonthSummary ==
  /\ report.pc = "printCalendar"
  /\ ~(report.currentDay < report.to)
  /\ report' = [report EXCEPT !.pc = "printMonthSummary",
                              !.currentMonth = report.from]
  /\ UNCHANGED << analyseVars, gather, fetch, paging, cell >>

\* printMonthSummary, one turn of `while (currentMonth <= TO)`
PrintMonth ==
  /\ report.pc = "printMonthSummary"
  /\ report.currentMonth <= report.to
  /\ LET from == report.currentMonth
         to == EndOfMonth(report.currentMonth)
         window == FromDateTimes(from, to)
     IN  report' = [report EXCEPT
           !.months = Append(@, ReportRow(report.phases, window)),
           !.currentMonth = PlusMonth(report.currentMonth)]
  /\ UNCHANGED << analyseVars, gather, fetch, paging, cell >>

\* printMonthSummary returns, printTotal
PrintTotal ==
  /\ report.pc = "printMonthSummary"
  /\ ~(report.currentMonth <= report.to)
  /\ report' = [report EXCEPT
       !.pc = "done",
       !.total = ReportRow(report.phases,
                           FromDateTimes(report.from, report.to))]
  /\ UNCHANGED << analyseVars, gather, fetch, paging, cell >>

NextReport == PrintDay \/ StartMonthSummary \/ PrintMonth \/ PrintTotal

SpecReport == InitReport /\ [][NextReport]_vars

RECURSIVE SumOfRows(_)
SumOfRows(rows) ==
  IF rows = << >> THEN 0
  ELSE Head(rows).minutesWorked + SumOfRows(Tail(rows))

\* the windows lie end to end from FROM to TO
CoverRange(rows) ==
  /\ rows # << >>
  /\ rows[1].timeframe.s = report.from
  /\ rows[Len(rows)].timeframe.e = report.to
  /\ \A k \in 1 .. Len(rows) - 1 :
       rows[k + 1].timeframe.s = rows[k].timeframe.e

\* C16: when the report is printed, the per-day minutes and the per-month
\* minutes each add up to the total of printTotal, and the day windows and
\* the month windows each cover [FROM, TO] exactly once.
C16_AggregatesAgree ==
  report.pc = "done" =>
    /\ SumOfRows(report.days) = report.total.minutesWorked
    /\ SumOfRows(report.months) = report.total.minutesWorked
    /\ CoverRange(report.days)
    /\ CoverRange(report.months)

====
